---- MODULE Spec2Model ----
(***************************************************************************)
(* Protocol Wizard: the LLM invocation core (server/llm.py), the response  *)
(* normalizer (server/utils.py) and the fallback decision of the draft,    *)
(* refine and query stages (protocol_api/main.py).                         *)
(*                                                                         *)
(* Conventions.                                                            *)
(*  - A text is a sequence of atoms.  The atoms are the characters that    *)
(*    the code inspects ("BT" a backtick, the letters of the fence tags,   *)
(*    "SP" a space, "NL" a newline, brackets, comma) and JSON literals the *)
(*    code never looks into: "P" a Protocol-shaped object, "R" a           *)
(*    Refinements-shaped object, "Q" a Query-shaped object, "E" the object *)
(*    {}, "FD"/"FR" the two hard-coded fallback documents, "1" a number,   *)
(*    "x" a character that starts no JSON value, "D" a JSON array nested   *)
(*    deeper than the interpreter's recursion limit.                       *)
(*  - A model identifier is a sequence of words and ":" separators.        *)
(*  - Optional[T] is a sequence of length at most one: None is <<>>,       *)
(*    a present value v is <<v>>.                                          *)
(*  - Time is an integer clock (milliseconds); delays are whole units.     *)
(***************************************************************************)
EXTENDS Integers, Sequences, FiniteSets, TLC

\* ---------------------------------------------------------------- bounds

\* Largest max_retries the retry specifications draw.
MaxRetries == 3
\* Largest base_delay drawn.
MaxBaseDelay == 1
\* Largest max_delay drawn.
MaxMaxDelay == 2
\* Longest time a backend takes to answer one request.
MaxDur == 2
\* Largest timeout_seconds drawn.
MaxTimeout == 1
\* The clock value at which the call starts.
StartClock == 1
\* The clock is not advanced past this value.
MaxClock == 8
\* Longest model identifier (in words and separators) drawn for the parser.
MaxModelLen == 3

\* An int as large as 2**FloatMaxExp does not convert to a float: the
\* product  cfg.base_delay * (2 ** attempt)  raises OverflowError from there.
FloatMaxExp == 1024

\* ------------------------------------------------------------- optionals

None == <<>>
Some(v) == <<v>>
IsNone(o) == o = <<>>
Get(o) == o[1]

Min(a, b) == IF a <= b THEN a ELSE b

RECURSIVE SumSeq(_)
SumSeq(s) == IF s = <<>> THEN 0 ELSE Head(s) + SumSeq(Tail(s))

Last(s) == s[Len(s)]

\* ------------------------------------------------------------------ text

WS == {"SP", "NL"}

FENCE == <<"BT", "BT", "BT">>
FENCE_JSON == FENCE \o <<"j", "s", "o", "n">>
FENCE_JSONL == FENCE_JSON \o <<"l">>

StartsWith(t, pat) ==
    /\ Len(t) >= Len(pat)
    /\ SubSeq(t, 1, Len(pat)) = pat

\* str.replace(pat, ""): every non-overlapping occurrence, left to right.
RECURSIVE Remove(_, _)
Remove(t, pat) ==
    IF Len(t) < Len(pat) THEN t
    ELSE IF StartsWith(t, pat) THEN Remove(SubSeq(t, Len(pat) + 1, Len(t)), pat)
    ELSE <<Head(t)>> \o Remove(Tail(t), pat)

RECURSIVE LStrip(_)
LStrip(t) == IF t # <<>> /\ Head(t) \in WS THEN LStrip(Tail(t)) ELSE t

RECURSIVE RStrip(_)
RStrip(t) ==
    IF t # <<>> /\ Last(t) \in WS THEN RStrip(SubSeq(t, 1, Len(t) - 1)) ELSE t

\* str.strip()
Strip(t) == RStrip(LStrip(t))

\* Mutant: the plain marker is not removed.
strip_code_fences_tagged_only(text) ==
    Strip(Remove(Remove(text, FENCE_JSON), FENCE_JSONL))

strip_code_fences(text) ==
    Strip(Remove(Remove(Remove(text, FENCE_JSON), FENCE_JSONL), FENCE))

\* ------------------------------------------------------------------ JSON

\* Parsed JSON values.  An object literal is one atom, so a dict carries the
\* atom as its tag; a list carries its elements.
Dict(tag) == [kind |-> "dict", tag |-> tag, items |-> <<>>]
Num == [kind |-> "num", tag |-> "1", items |-> <<>>]
List(items) == [kind |-> "list", tag |-> "", items |-> items]

DictAtoms == {"P", "R", "Q", "E", "FD", "FR"}

\* A failed scan raises JSONDecodeError, or RecursionError when the value is
\* nested deeper than the interpreter's recursion limit.
ParseFail == [ok |-> FALSE, val |-> Num, next |-> 0, exc |-> "JSONDecodeError"]
ParseDeep == [ok |-> FALSE, val |-> Num, next |-> 0, exc |-> "RecursionError"]
ParseOk(v, n) == [ok |-> TRUE, val |-> v, next |-> n, exc |-> ""]

\* The first index from i on that holds no whitespace (Len(t) + 1 at the end).
RECURSIVE SkipWs(_, _)
SkipWs(t, i) == IF i <= Len(t) /\ t[i] \in WS THEN SkipWs(t, i + 1) ELSE i

\* json's scanner: one value starting at index i.
RECURSIVE ParseValue(_, _)
RECURSIVE ParseElems(_, _, _)
ParseValue(t, i) ==
    IF i > Len(t) THEN ParseFail
    ELSE IF t[i] \in DictAtoms THEN ParseOk(Dict(t[i]), i + 1)
    ELSE IF t[i] = "1" THEN ParseOk(Num, i + 1)
    ELSE IF t[i] = "D" THEN ParseDeep
    ELSE IF t[i] = "["
         THEN LET j == SkipWs(t, i + 1)
              IN  IF j <= Len(t) /\ t[j] = "]"
                  THEN ParseOk(List(<<>>), j + 1)
                  ELSE ParseElems(t, j, <<>>)
    ELSE ParseFail

ParseElems(t, i, acc) ==
    LET r == ParseValue(t, i)
    IN  IF ~r.ok THEN r
        ELSE LET j == SkipWs(t, r.next)
             IN  IF j > Len(t) THEN ParseFail
                 ELSE IF t[j] = "]" THEN ParseOk(List(acc \o <<r.val>>), j + 1)
                 ELSE IF t[j] = ","
                      THEN ParseElems(t, SkipWs(t, j + 1), acc \o <<r.val>>)
                 ELSE ParseFail

\* json.loads: leading whitespace, one value, trailing whitespace, the end.
\* ok = FALSE stands for the exception named in exc.
json_loads(t) ==
    LET r == ParseValue(t, SkipWs(t, 1))
    IN  IF r.ok /\ SkipWs(t, r.next) = Len(t) + 1
        THEN [ok |-> TRUE, val |-> r.val, exc |-> ""]
        ELSE [ok |-> FALSE, val |-> Num,
              exc |-> IF r.ok THEN "JSONDecodeError" ELSE r.exc]

\* str.splitlines(), on the newline atom.
RECURSIVE SplitLines(_, _)
SplitLines(t, cur) ==
    IF t = <<>> THEN (IF cur = <<>> THEN <<>> ELSE <<cur>>)
    ELSE IF Head(t) = "NL" THEN <<cur>> \o SplitLines(Tail(t), <<>>)
    ELSE SplitLines(Tail(t), cur \o <<Head(t)>>)

RECURSIVE OnlyDicts(_)
OnlyDicts(vs) ==
    IF vs = <<>> THEN <<>>
    ELSE (IF Head(vs).kind = "dict" THEN <<Head(vs)>> ELSE <<>>)
         \o OnlyDicts(Tail(vs))

\* Mutant: a line that parses is kept, whatever its value.
ParseLineAnyValue(l) ==
    LET line == Strip(l)
        r == json_loads(line)
    IN  IF line # <<>> /\ r.ok THEN <<r.val>> ELSE <<>>

\* Lines 51-59: one line, stripped; a blank line, a line that does not parse
\* and a line whose value is no dict add nothing.
ParseLine(l) ==
    LET line == Strip(l)
        r == json_loads(line)
    IN  IF line # <<>> /\ r.ok /\ r.val.kind = "dict" THEN <<r.val>> ELSE <<>>

RECURSIVE ParseLines(_)
ParseLines(ls) ==
    IF ls = <<>> THEN <<>> ELSE ParseLine(Head(ls)) \o ParseLines(Tail(ls))

\* Mutant: the whole-text parse is skipped.
normalize_jsonl_lines_only(raw) ==
    ParseLines(SplitLines(strip_code_fences(raw), <<>>))

normalize_jsonl(raw) ==
    LET cleaned == strip_code_fences(raw)
        arr == json_loads(cleaned)
    IN  IF arr.ok /\ arr.val.kind = "list"
        THEN OnlyDicts(arr.val.items)
        ELSE ParseLines(SplitLines(cleaned, <<>>))

\* ------------------------------------------------------------- providers

\* class LLMProvider(Enum): the values of its three members.
ProviderValues == {"openai", "gemini", "google"}

\* str.lower() on the words of model identifiers.
Lower(w) ==
    CASE w = "OpenAI" -> "openai"
      [] w = "GEMINI" -> "gemini"
      [] w = "Google" -> "google"
      [] OTHER -> w

RECURSIVE LowerSeq(_)
LowerSeq(s) == IF s = <<>> THEN <<>> ELSE <<Lower(Head(s))>> \o LowerSeq(Tail(s))

HasColon(m) == \E i \in 1..Len(m) : m[i] = ":"
FirstColon(m) == CHOOSE i \in 1..Len(m) : m[i] = ":" /\ \A j \in 1..(i - 1) : m[j] # ":"

\* LLMProvider(s): the member whose value is s, ValueError (ok = FALSE) if none.
\* Words are indivisible, so only a one-word s can spell a value.
LLMProvider(s) ==
    IF Len(s) = 1 /\ s[1] \in ProviderValues
    THEN [ok |-> TRUE, value |-> s[1]]
    ELSE [ok |-> FALSE, value |-> ""]

\* Mutant: the default is the other backend.
DefaultProviderGemini == "gemini"

\* Line 287: the provider of an identifier with no known tag.
DefaultProvider == "openai"

\* Mutant: the tag is compared case-sensitively.
parse_model_string_cased(m) ==
    IF HasColon(m)
    THEN LET i == FirstColon(m)
             p == LLMProvider(SubSeq(m, 1, i - 1))
         IN  IF p.ok THEN [provider |-> p.value, name |-> SubSeq(m, i + 1, Len(m))]
             ELSE [provider |-> DefaultProvider, name |-> m]
    ELSE [provider |-> DefaultProvider, name |-> m]

parse_model_string(m) ==
    IF HasColon(m)
    THEN LET i == FirstColon(m)
             provider_str == SubSeq(m, 1, i - 1)
             rest == SubSeq(m, i + 1, Len(m))
             p == LLMProvider(LowerSeq(provider_str))
         IN  IF p.ok THEN [provider |-> p.value, name |-> rest]
             ELSE [provider |-> DefaultProvider, name |-> m]
    ELSE [provider |-> DefaultProvider, name |-> m]

\* ------------------------------------------------------------ LLMResponse

\* @dataclass LLMResponse; content, tokens_used and error are Optional.
LLMResponse(content, success, provider, mdl, latency_ms, tokens_used, error) ==
    [content |-> content, success |-> success, provider |-> provider,
     model |-> mdl, latency_ms |-> latency_ms, tokens_used |-> tokens_used,
     error |-> error]

\* Python truthiness of an Optional[str]: neither None nor "".
Truthy(content) == ~IsNone(content) /\ Get(content) # <<>>

\* ----------------------------------------------------------------- inputs

\* Model identifiers given to call_llm_async ("gemini:m" is the default's form).
ModelSamples ==
    { <<"gemini", ":", "m">>, <<"openai", ":", "m">>, <<"Google", ":", "m">>,
      <<"foo", ":", "m">> }

\* LLMConfig: the fields the retry loop reads.
Configs ==
    [max_retries : 0..MaxRetries, base_delay : 0..MaxBaseDelay,
     max_delay : 0..MaxMaxDelay, timeout_seconds : 1..MaxTimeout]

\* The credential slots: whether OPENAI_API_KEY / GOOGLE_API_KEY are set.
Envs == { [openai |-> TRUE, google |-> TRUE], [openai |-> FALSE, google |-> FALSE] }

Stages == {"draft", "refine", "queries"}

\* Messages of the exceptions a backend, or an adapter, can raise.
Errors == {"e1", "e2"}

\* Texts a backend can generate.
ContentSamples ==
    { <<>>,
      <<"SP", "SP">>,
      <<"P">>,
      <<"R">>,
      <<"Q">>,
      <<"E">>,
      <<"1">>,
      <<"x">>,
      <<"D">>,
      <<"[", "]">>,
      <<"[", "Q", ",", "1", "]">>,
      <<"[", "E", "]">>,
      <<"Q", "NL", "x", "NL", "NL", "Q">>,
      FENCE_JSON \o <<"NL", "P", "NL">> \o FENCE,
      FENCE \o <<"NL", "R", "NL">> \o FENCE,
      FENCE_JSONL \o <<"NL", "Q", "NL">> \o FENCE }

\* What one backend request ends in: an exception, or a reply with its text
\* (possibly missing) and its token count (possibly missing).
Replies ==
    { [kind |-> "exc", msg |-> e, content |-> None, tokens |-> None] : e \in Errors }
    \cup
    { [kind |-> "text", msg |-> "", content |-> c, tokens |-> None] :
        c \in {None} \cup { Some(t) : t \in ContentSamples } }
    \cup
    { [kind |-> "text", msg |-> "", content |-> Some(<<"P">>), tokens |-> Some(7)] }

\* --------------------------------------------------------------- adapters

_call_openai(api_key, mdl, reply) ==
    IF ~api_key
    THEN LLMResponse(None, FALSE, "openai", mdl, 0, None,
                     Some(<<"OPENAI_API_KEY not set">>))
    ELSE IF reply.kind = "exc"
    THEN LLMResponse(None, FALSE, "openai", mdl, 0, None,
                     Some(<<"OpenAI API error: ", reply.msg>>))
    ELSE LLMResponse(reply.content, TRUE, "openai", mdl, 0, reply.tokens, None)

_call_gemini(api_key, mdl, reply) ==
    IF ~api_key
    THEN LLMResponse(None, FALSE, "gemini", mdl, 0, None,
                     Some(<<"GOOGLE_API_KEY not set">>))
    ELSE IF reply.kind = "exc"
    THEN LLMResponse(None, FALSE, "gemini", mdl, 0, None,
                     Some(<<"Gemini API error: ", reply.msg>>))
    ELSE IF ~Truthy(reply.content)
    THEN LLMResponse(None, FALSE, "gemini", mdl, 0, None,
                     Some(<<"No content in Gemini response">>))
    ELSE LLMResponse(reply.content, TRUE, "gemini", mdl, 0, reply.tokens, None)

\* The adapter call_llm_async dispatches to for a provider (lines 66-69).
AdapterOf(v) ==
    IF v = "openai" THEN "openai"
    ELSE IF v \in {"gemini", "google"} THEN "gemini"
    ELSE "none"

CallAdapter(adapter, e, mdl, reply) ==
    IF adapter = "openai" THEN _call_openai(e.openai, mdl, reply)
    ELSE _call_gemini(e.google, mdl, reply)

\* Mutant: the credential check is skipped.
HasKeyAssumed(adapter, e) == TRUE

\* Whether the adapter finds its credential (lines 125-126 and 177-178).
HasKey(adapter, e) == IF adapter = "openai" THEN e.openai ELSE e.google

\* The client's exception when the wait for the backend runs out.
TimedOut == [kind |-> "exc", msg |-> "Request timed out.", content |-> None,
             tokens |-> None]

\* What the adapter sees of a backend that answers with reply after d, and
\* how long the attempt lasts.  Without the credential no request is made.
\* The OpenAI client is built with timeout=config.timeout_seconds (lines
\* 139-142): a slower backend ends in the client's timeout exception.  The
\* Gemini request (lines 188-210) is given no timeout: it lasts as long as
\* generate_content does.
BackendWait(adapter, e, c, reply, d) ==
    IF ~HasKey(adapter, e) THEN [reply |-> reply, dur |-> 0]
    ELSE IF adapter = "openai" /\ d > c.timeout_seconds
    THEN [reply |-> TimedOut, dur |-> c.timeout_seconds]
    ELSE [reply |-> reply, dur |-> d]

\* ------------------------------------------------------------------ state

VARIABLES
    model,        \* the model identifier of the request
    cfg,          \* the LLMConfig of the call
    env,          \* the credential slots
    stage,        \* the stage handler that makes the call
    pc,           \* where the call is: start, loop, awaiting, backoff,
                  \* sleeping, done, raised, responded, and parse/parsed
    vendor,       \* call_llm_async: the resolved provider value
    name,         \* call_llm_async: the resolved model name
    attempt,      \* call_llm_async: the loop index
    start_time,   \* call_llm_async: time.time() at line 61
    now,          \* the clock
    last_error,   \* call_llm_async: Optional error of the latest attempt
    result,       \* Optional: the LLMResponse call_llm_async returned
    resp,         \* Optional: the response of the stage handler
    calls,        \* history: the adapter invocations, in order
    sleeps,       \* history: the delays passed to asyncio.sleep, in order
    last_attempt, \* history: Optional outcome of the latest finished attempt
    busy,         \* history: the summed durations of the finished attempts
    attempt_start, \* history: the clock when the latest attempt began
    n_failed,     \* history: the number of attempts that ended in failure
    arg,          \* the argument of a utility function under test
    ret,          \* Optional: what the utility function returned
    frozen,       \* history: the freeze requests served, with their responses
    tasks,        \* concurrent invocations of call_llm_async: their locals
    genai,        \* the google.generativeai module: its configured api_key
    cancelled,    \* Optional: the cancellation delivered to the call
    requests,     \* history: the adapter invocations that went on to the
                  \* backend, past the credential check
    loop_thread,  \* Optional: the invocation whose blocking call occupies
                  \* the thread of the event loop
    sync_resp,    \* Optional: the response of the synchronous stage handler
                  \* (server/main.py) to the same call result
    buckets       \* RateLimiter.buckets: per client an Optional bucket

vars == <<model, cfg, env, stage, pc, vendor, name, attempt, start_time, now,
          last_error, result, resp, calls, sleeps, last_attempt, busy,
          attempt_start, n_failed, arg, ret, frozen, tasks, genai, cancelled,
          requests, loop_thread, sync_resp, buckets>>

inputs == <<model, cfg, env, stage>>

\* What the enclosing request does to the invocation, and what the
\* invocation has sent out.
ext == <<cancelled, requests, loop_thread, sync_resp, buckets>>

ExtIdle ==
    /\ cancelled = None
    /\ requests = 0
    /\ loop_thread = None
    /\ sync_resp = None
    /\ buckets = <<>>

\* The state outside one invocation of call_llm_async and its stage.
others == <<arg, ret, frozen, tasks, genai, ext>>

\* Nothing but the one invocation is running.
OthersIdle ==
    /\ arg = <<>>
    /\ ret = None
    /\ frozen = <<>>
    /\ tasks = <<>>
    /\ genai = None
    /\ ExtIdle

InitLocals ==
    /\ vendor = ""
    /\ name = <<>>
    /\ attempt = 0
    /\ start_time = 0
    /\ now = StartClock
    /\ last_error = None
    /\ result = None
    /\ resp = None
    /\ calls = <<>>
    /\ sleeps = <<>>
    /\ last_attempt = None
    /\ busy = 0
    /\ attempt_start = 0
    /\ n_failed = 0

Init ==
    /\ model \in ModelSamples
    /\ cfg \in Configs
    /\ env \in Envs
    /\ stage \in Stages
    /\ pc = "start"
    /\ InitLocals
    /\ OthersIdle

\* -------------------------------------------------------- call_llm_async

\* Lines 58-62: resolve the provider, take the start time.
Start ==
    /\ pc = "start"
    /\ LET parsed == parse_model_string(model)
       IN  /\ vendor' = parsed.provider
           /\ name' = parsed.name
    /\ start_time' = now
    /\ last_error' = None
    /\ attempt' = 0
    /\ pc' = "loop"
    /\ UNCHANGED <<inputs, others, now, result, resp, calls, sleeps, last_attempt, busy,
                   n_failed, attempt_start>>

\* Mutant: the time is taken from the start of the latest attempt.
ElapsedMsOfAttempt(t, t0) == t - attempt_start

\* int((time.time() - start_time) * 1000), on the integer clock.
ElapsedMs(t, t0) == t - t0

\* Lines 64-78: the loop goes on, and awaits the provider's adapter; a provider
\* with no adapter returns at once.
Invoke ==
    /\ pc = "loop"
    /\ attempt < cfg.max_retries
    /\ IF AdapterOf(vendor) # "none"
       THEN /\ calls' = Append(calls, [adapter |-> AdapterOf(vendor), model |-> name])
            /\ requests' = IF HasKey(AdapterOf(vendor), env)
                           THEN requests + 1 ELSE requests
            /\ pc' = "awaiting"
            /\ UNCHANGED result
       ELSE /\ result' = Some(LLMResponse(None, FALSE, vendor, name, 0, None,
                                          Some(<<"Unsupported provider: ", vendor>>)))
            /\ pc' = "done"
            /\ UNCHANGED <<calls, requests>>
    /\ attempt_start' = now
    /\ UNCHANGED <<inputs, arg, ret, frozen, tasks, genai, cancelled, loop_thread, sync_resp,
                   buckets, vendor, name, attempt, start_time, now, last_error,
                   resp, sleeps, last_attempt, busy, n_failed>>

\* Mutant: a success with no text is retried.
SucceededWithContent(response) == response.success /\ Truthy(response.content)

\* Line 83: the test that ends the loop.
Succeeded(response) == response.success

\* Mutant: only the first error is kept.
KeepFirstError(prev, err) == IF IsNone(prev) THEN err ELSE prev

\* Lines 90 and 93: the error kept after a failed attempt.
NextLastError(prev, err) == err

\* Lines 67/69 and 80-90: the backend answers with reply0 after d0 and the
\* awaited adapter returns; the latency is patched in, a success is returned,
\* a failure is remembered.
AttemptReturns(reply0, d0) ==
    /\ pc = "awaiting"
    /\ HasKey(AdapterOf(vendor), env) \/ d0 = 0
    /\ LET w == BackendWait(AdapterOf(vendor), env, cfg, reply0, d0)
           d == w.dur
           returned == CallAdapter(AdapterOf(vendor), env, name, w.reply)
           response == [returned EXCEPT !.latency_ms = ElapsedMs(now + d, start_time)]
       IN  /\ now + d <= MaxClock
           /\ now' = now + d
           /\ busy' = busy + d
           /\ last_attempt' =
                Some([raised |-> FALSE, response |-> returned,
                      error |-> returned.error, dur |-> d, ended |-> now + d])
           /\ IF Succeeded(response)
              THEN /\ result' = Some(response)
                   /\ pc' = "done"
                   /\ UNCHANGED <<last_error, n_failed>>
              ELSE /\ last_error' = NextLastError(last_error, response.error)
                   /\ n_failed' = n_failed + 1
                   /\ pc' = "backoff"
                   /\ UNCHANGED result
    /\ UNCHANGED <<inputs, others, vendor, name, attempt, start_time, resp, calls, sleeps,
                   attempt_start>>

\* Lines 92-96: the awaited adapter raises an Exception after d.  An adapter
\* that finds no credential only runs lines 125-134 / 177-186, which raise
\* nothing.
AttemptRaises(e, d) ==
    /\ pc = "awaiting"
    /\ HasKey(AdapterOf(vendor), env)
    /\ now + d <= MaxClock
    /\ now' = now + d
    /\ busy' = busy + d
    /\ last_attempt' =
         Some([raised |-> TRUE,
               response |-> LLMResponse(None, FALSE, "", <<>>, 0, None, None),
               error |-> Some(<<e>>), dur |-> d, ended |-> now + d])
    /\ last_error' = NextLastError(last_error, Some(<<e>>))
    /\ n_failed' = n_failed + 1
    /\ pc' = "backoff"
    /\ UNCHANGED <<inputs, others, vendor, name, attempt, start_time, result, resp, calls,
                   sleeps, attempt_start>>

\* Line 99: a sleep follows every attempt but the last.
ShouldSleep(c, k) == k < c.max_retries - 1

\* b * (2 ** k); a zero b absorbs the power, whatever its size.
Scaled(b, k) == IF b = 0 THEN 0 ELSE b * (2 ^ k)

\* Mutant: the ceiling is dropped.
backoff_delay_uncapped(c, k) == Scaled(c.base_delay, k)

\* Line 100: min(cfg.base_delay * (2 ** attempt), cfg.max_delay).
backoff_delay(c, k) == Min(Scaled(c.base_delay, k), c.max_delay)

\* Line 100: base_delay is a float, so 2 ** attempt is converted to a float,
\* which raises OverflowError once it is too large.
DelayRaises(k) == k >= FloatMaxExp

\* Lines 98-102: after a failed attempt.  The delay is computed outside the
\* try block, so an exception from it leaves call_llm_async.
Backoff ==
    /\ pc = "backoff"
    /\ IF ShouldSleep(cfg, attempt)
       THEN IF DelayRaises(attempt)
            THEN /\ pc' = "raised"
                 /\ UNCHANGED <<sleeps, attempt>>
            ELSE /\ sleeps' = Append(sleeps, backoff_delay(cfg, attempt))
                 /\ pc' = "sleeping"
                 /\ UNCHANGED attempt
       ELSE /\ attempt' = attempt + 1
            /\ pc' = "loop"
            /\ UNCHANGED sleeps
    /\ UNCHANGED <<inputs, others, vendor, name, start_time, now, last_error, result, resp,
                   calls, last_attempt, busy, n_failed, attempt_start>>

\* Mutant: the sleep is not awaited.
WakeTimeAtOnce(t, delay) == t

\* await asyncio.sleep(delay) begun at t: the time at which it ends.
WakeTime(t, delay) == t + delay

\* Line 102: asyncio.sleep(delay) ends; the loop goes to the next attempt.
Wake ==
    /\ pc = "sleeping"
    /\ now + Last(sleeps) <= MaxClock
    /\ now' = WakeTime(now, Last(sleeps))
    /\ attempt' = attempt + 1
    /\ pc' = "loop"
    /\ UNCHANGED <<inputs, others, vendor, name, start_time, last_error, result, resp,
                   calls, sleeps, last_attempt, busy, n_failed, attempt_start>>

\* Lines 104-118: all retries exhausted.
Exhausted ==
    /\ pc = "loop"
    /\ attempt >= cfg.max_retries
    /\ result' = Some(LLMResponse(None, FALSE, vendor, name,
                                  ElapsedMs(now, start_time), None, last_error))
    /\ pc' = "done"
    /\ UNCHANGED <<inputs, others, vendor, name, attempt, start_time, now, last_error,
                   resp, calls, sleeps, last_attempt, busy, n_failed, attempt_start>>

\* ----------------------------------------------------------- cancellation

\* The exception asyncio throws into a cancelled coroutine at its await.
CancelledError == "CancelledError"

\* Mutant: CancelledError derives from Exception.
IsExceptionAny(cls) == TRUE

\* `except Exception` (lines 92, 162 and 243) catches the classes that derive
\* from Exception; asyncio.CancelledError derives from BaseException.
IsException(cls) == cls # CancelledError

\* The awaits at which the call is suspended: the backend request inside an
\* adapter that found its credential (lines 144 and 208), and the backoff
\* sleep (line 102).  An adapter without its credential returns without
\* awaiting anything.
Suspended ==
    \/ pc = "sleeping"
    \/ pc = "awaiting" /\ HasKey(AdapterOf(vendor), env)

\* The enclosing request is cancelled: CancelledError is thrown into the call
\* where it is suspended.  In the sleep (line 102) no try block encloses the
\* await.  In an attempt the adapter's handler (lines 162 and 243) and then the
\* loop's handler (line 92) see it: a handler that catches it turns it into a
\* failed attempt, otherwise it leaves call_llm_async.
Cancel ==
    /\ Suspended
    /\ IsNone(cancelled)
    /\ cancelled' = Some([during |-> pc, calls |-> Len(calls),
                          sleeps |-> Len(sleeps), n_failed |-> n_failed])
    /\ IF pc = "awaiting" /\ IsException(CancelledError)
       THEN LET returned ==
                  CallAdapter(AdapterOf(vendor), env, name,
                              [kind |-> "exc", msg |-> "", content |-> None,
                               tokens |-> None])
            IN  /\ last_attempt' =
                     Some([raised |-> FALSE, response |-> returned,
                           error |-> returned.error, dur |-> 0, ended |-> now])
                /\ last_error' = NextLastError(last_error, returned.error)
                /\ n_failed' = n_failed + 1
                /\ pc' = "backoff"
       ELSE /\ pc' = "cancelled"
            /\ UNCHANGED <<last_attempt, last_error, n_failed>>
    /\ UNCHANGED <<inputs, arg, ret, frozen, tasks, genai, requests, loop_thread, sync_resp,
                   buckets, vendor, name,
                   attempt, start_time, now, result, resp, calls, sleeps, busy,
                   attempt_start>>

\* ----------------------------------------------------------------- stages

\* The two static fallback documents (json.dumps of fixed objects).
FALLBACK_DRAFT == <<"FD">>
FALLBACK_REFINEMENTS == <<"FR">>

\* pydantic validation of the three payloads; FALSE stands for ValidationError.
ProtocolValid(obj) == obj.kind = "dict" /\ obj.tag \in {"P", "FD"}
RefinementsValid(obj) == obj.kind = "dict" /\ obj.tag \in {"R", "FR"}
QueryValid(obj) == obj.kind = "dict" /\ obj.tag = "Q"

\* if not response.success or not response.content
CallFailed(response) == ~response.success \/ ~Truthy(response.content)

\* Mutant: a parse failure substitutes the fallback without flagging it.
JsonStageUnflagged(response, fallback) ==
    LET failed == CallFailed(response)
        raw == IF failed THEN fallback ELSE Get(response.content)
        parsed == json_loads(strip_code_fences(raw))
    IN  [used_fallback |-> failed,
         obj |-> IF parsed.ok THEN parsed.val ELSE json_loads(fallback).val,
         raised |-> parsed.exc \notin {"", "JSONDecodeError"}]

\* The fallback decision of a stage that expects one JSON object: the call
\* result picks the raw text, a JSONDecodeError falls back as well; any other
\* exception of json.loads leaves the handler (raised).
JsonStage(response, fallback) ==
    LET failed == CallFailed(response)
        raw == IF failed THEN fallback ELSE Get(response.content)
        parsed == json_loads(strip_code_fences(raw))
    IN  [used_fallback |-> failed \/ ~parsed.ok,
         obj |-> IF parsed.ok THEN parsed.val ELSE json_loads(fallback).val,
         raised |-> parsed.exc \notin {"", "JSONDecodeError"}]

draft_decision(response) == JsonStage(response, FALLBACK_DRAFT)
refine_decision(response) == JsonStage(response, FALLBACK_REFINEMENTS)

\* Mutant: an empty record list is not flagged.
queries_decision_unflagged(response) ==
    IF CallFailed(response)
    THEN [used_fallback |-> TRUE, objs |-> <<>>]
    ELSE [used_fallback |-> FALSE, objs |-> normalize_jsonl(Get(response.content))]

\* The fallback decision of the query stage.
queries_decision(response) ==
    IF CallFailed(response)
    THEN [used_fallback |-> TRUE, objs |-> <<>>]
    ELSE LET objs == normalize_jsonl(Get(response.content))
         IN  [used_fallback |-> objs = <<>>, objs |-> objs]

\* A stage answers with its response model, or, when an exception leaves the
\* handler, with the error response of global_exception_handler.
OkResponse(from_fallback, body) ==
    Some([kind |-> "ok", from_fallback |-> from_fallback, body |-> body])
ErrorResponse == Some([kind |-> "error", from_fallback |-> FALSE, body |-> <<>>])

\* api_draft, from the return of call_llm_async on.
ApiDraft ==
    /\ stage = "draft"
    /\ pc \in {"done", "raised"}
    /\ resp' = IF pc = "raised" THEN ErrorResponse
               ELSE LET d == draft_decision(Get(result))
                    IN  IF ~d.raised /\ ProtocolValid(d.obj)
                        THEN OkResponse(d.used_fallback, <<d.obj>>)
                        ELSE ErrorResponse
    /\ pc' = "responded"
    /\ UNCHANGED <<inputs, others, vendor, name, attempt, start_time, now, last_error,
                   result, calls, sleeps, last_attempt, busy, n_failed, attempt_start>>

\* api_refine, from the return of call_llm_async on.
ApiRefine ==
    /\ stage = "refine"
    /\ pc \in {"done", "raised"}
    /\ resp' = IF pc = "raised" THEN ErrorResponse
               ELSE LET d == refine_decision(Get(result))
                    IN  IF ~d.raised /\ RefinementsValid(d.obj)
                        THEN OkResponse(d.used_fallback, <<d.obj>>)
                        ELSE ErrorResponse
    /\ pc' = "responded"
    /\ UNCHANGED <<inputs, others, vendor, name, attempt, start_time, now, last_error,
                   result, calls, sleeps, last_attempt, busy, n_failed, attempt_start>>

\* api_queries, from the return of call_llm_async on.
ApiQueries ==
    /\ stage = "queries"
    /\ pc \in {"done", "raised"}
    /\ resp' = IF pc = "raised" THEN ErrorResponse
               ELSE LET d == queries_decision(Get(result))
                    IN  IF \A i \in 1..Len(d.objs) : QueryValid(d.objs[i])
                        THEN OkResponse(d.used_fallback, d.objs)
                        ELSE ErrorResponse
    /\ pc' = "responded"
    /\ UNCHANGED <<inputs, others, vendor, name, attempt, start_time, now, last_error,
                   result, calls, sleeps, last_attempt, busy, n_failed, attempt_start>>

\* ------------------------------------------- synchronous stages (server)

\* call_llm (lines 290-303): the wrapper runs call_llm_async with the default
\* configuration and hands on the content alone.
call_llm(response) == response.content

\* server/main.py, lines 65-75 and 103-113: None picks the fallback text, and
\* `except Exception` turns every exception of json.loads into the fallback.
SyncJsonStage(raw0, fallback) ==
    LET none == IsNone(raw0)
        raw == IF none THEN fallback ELSE Get(raw0)
        parsed == json_loads(strip_code_fences(raw))
    IN  [used_fallback |-> none \/ ~parsed.ok,
         obj |-> IF parsed.ok THEN parsed.val ELSE json_loads(fallback).val,
         raised |-> FALSE]

sync_draft_decision(raw0) == SyncJsonStage(raw0, FALLBACK_DRAFT)
sync_refine_decision(raw0) == SyncJsonStage(raw0, FALLBACK_REFINEMENTS)

\* server/main.py, lines 128-139.
sync_queries_decision(raw0) ==
    IF IsNone(raw0)
    THEN [used_fallback |-> TRUE, objs |-> <<>>]
    ELSE LET objs == normalize_jsonl(Get(raw0))
         IN  [used_fallback |-> objs = <<>>, objs |-> objs]

\* The synchronous stage handler of the request's stage, given the result the
\* call has ended in; an exception out of call_llm or out of the response
\* model ends in an error response.
SyncStageResponse ==
    IF IsNone(result) THEN ErrorResponse
    ELSE LET raw0 == call_llm(Get(result))
         IN  CASE stage = "draft" ->
                    LET d == sync_draft_decision(raw0)
                    IN  IF ProtocolValid(d.obj)
                        THEN OkResponse(d.used_fallback, <<d.obj>>)
                        ELSE ErrorResponse
               [] stage = "refine" ->
                    LET d == sync_refine_decision(raw0)
                    IN  IF RefinementsValid(d.obj)
                        THEN OkResponse(d.used_fallback, <<d.obj>>)
                        ELSE ErrorResponse
               [] stage = "queries" ->
                    LET d == sync_queries_decision(raw0)
                    IN  IF \A i \in 1..Len(d.objs) : QueryValid(d.objs[i])
                        THEN OkResponse(d.used_fallback, d.objs)
                        ELSE ErrorResponse

\* server/main.py api_draft / api_refine / api_queries, from the return of
\* call_llm on, for the result the asynchronous stage has answered.
SyncApi ==
    /\ pc = "responded"
    /\ IsNone(sync_resp)
    /\ sync_resp' = SyncStageResponse
    /\ UNCHANGED <<inputs, arg, ret, frozen, tasks, genai, cancelled, requests,
                   loop_thread, buckets, pc, vendor, name, attempt, start_time, now,
                   last_error, result, resp, calls, sleeps, last_attempt, busy,
                   n_failed, attempt_start>>

\* --------------------------------------------------------- specifications

Next ==
    \/ Start
    \/ Invoke
    \/ \E reply \in Replies, d \in 0..MaxDur : AttemptReturns(reply, d)
    \/ \E e \in Errors, d \in 0..MaxDur : AttemptRaises(e, d)
    \/ Backoff
    \/ Wake
    \/ Exhausted
    \/ Cancel
    \/ ApiDraft
    \/ ApiRefine
    \/ ApiQueries
    \/ SyncApi

\* One request of one stage, with a retry budget of at most MaxRetries.
Spec == Init /\ [][Next]_vars

\* The same request with a retry budget beyond the range of float conversion.
LongConfigs ==
    { [max_retries |-> FloatMaxExp + 2, base_delay |-> 0, max_delay |-> 0,
       timeout_seconds |-> 1],
      [max_retries |-> 1, base_delay |-> 0, max_delay |-> 0,
       timeout_seconds |-> 1] }

InitLong ==
    /\ model = <<"gemini", ":", "m">>
    /\ cfg \in LongConfigs
    /\ env \in {[openai |-> FALSE, google |-> g] : g \in BOOLEAN}
    /\ stage \in Stages
    /\ cfg.max_retries > 1 => stage = "draft" /\ ~env.google
    /\ pc = "start"
    /\ InitLocals
    /\ OthersIdle

SpecLong == InitLong /\ [][Next]_vars

\* parse_model_string alone, on every identifier of at most MaxModelLen atoms.
ModelAtoms == {":", "openai", "OpenAI", "gemini", "GEMINI", "Google", "foo", "m"}
ModelStrings == UNION { [1..n -> ModelAtoms] : n \in 0..MaxModelLen }

InitParse ==
    /\ model \in ModelStrings
    /\ cfg = [max_retries |-> 0, base_delay |-> 0, max_delay |-> 0,
              timeout_seconds |-> 1]
    /\ env = [openai |-> FALSE, google |-> FALSE]
    /\ stage = "draft"
    /\ pc = "parse"
    /\ InitLocals
    /\ OthersIdle

ParseStep ==
    /\ pc = "parse"
    /\ LET parsed == parse_model_string(model)
       IN  /\ vendor' = parsed.provider
           /\ name' = parsed.name
    /\ pc' = "parsed"
    /\ UNCHANGED <<inputs, others, attempt, start_time, now, last_error, result, resp,
                   calls, sleeps, last_attempt, busy, n_failed, attempt_start>>

NextParse == ParseStep

SpecParse == InitParse /\ [][NextParse]_vars

\* ------------------------------------------------------------ properties

\* call_llm_async has returned a result.
Returned == pc \in {"done", "responded"} /\ ~IsNone(result)

\* call_llm_async has ended, by returning or by raising.
Ended == pc \in {"done", "raised", "responded"}

\* Every adapter attempt made so far has failed.
AllAttemptsFailed == n_failed = Len(calls)

\* C1: with max_retries = n >= 1, if every attempt fails (success=false or an
\* exception), the adapter is invoked exactly n times and the call returns
\* success=false, no content, and the error of the last attempt.
C1_ExhaustionKeepsLastError ==
    (Ended /\ AllAttemptsFailed /\ cfg.max_retries >= 1) =>
        /\ Returned
        /\ Len(calls) = cfg.max_retries
        /\ ~Get(result).success
        /\ IsNone(Get(result).content)
        /\ Get(result).error = Get(last_attempt).error

\* C1 witness: three attempts failed, the first two not with the error of the
\* third (an exception "e2"), and the call returned that last error.
C1_Witness ==
    /\ pc = "done"
    /\ cfg.max_retries = 3
    /\ n_failed = 3
    /\ Get(last_attempt).raised
    /\ Get(result).error = Some(<<"e2">>)

\* C2: an attempt that returns success=true ends the call: the adapter was
\* invoked once more than attempts failed, no sleep and no attempt follows,
\* and the result is that attempt's response with only latency_ms changed.
C2_SuccessShortCircuits ==
    (~IsNone(last_attempt) /\ ~Get(last_attempt).raised
        /\ Get(last_attempt).response.success) =>
        /\ Returned
        /\ Len(calls) = n_failed + 1
        /\ Len(sleeps) = n_failed
        /\ n_failed < cfg.max_retries
        /\ [Get(result) EXCEPT !.latency_ms = 0]
             = [Get(last_attempt).response EXCEPT !.latency_ms = 0]

\* C2 witness: one failure, then a success on the second of three attempts;
\* the stage has answered and nothing more was invoked.
C2_Witness ==
    /\ pc = "responded"
    /\ cfg.max_retries = 3
    /\ n_failed = 1
    /\ Len(calls) = 2
    /\ Get(result).success

\* C3: the sleep after attempt k lasts min(base_delay * 2^k, max_delay); no
\* sleep exceeds max_delay, delays never decrease, and an exhausted call of n
\* attempts has slept exactly n - 1 times, never after the final attempt.
C3_BackoffSchedule ==
    /\ \A i \in 1..Len(sleeps) :
          /\ sleeps[i] = Min(cfg.base_delay * (2 ^ (i - 1)), cfg.max_delay)
          /\ sleeps[i] <= cfg.max_delay
          /\ i > 1 => sleeps[i - 1] <= sleeps[i]
    /\ pc = "sleeping" => Len(sleeps) = attempt + 1
    /\ (Ended /\ AllAttemptsFailed /\ cfg.max_retries >= 1) =>
          Len(sleeps) = cfg.max_retries - 1

\* C3 witness: three failed attempts with base_delay 1 and max_delay 1: two
\* sleeps, the second one held at the ceiling.
C3_Witness ==
    /\ pc = "done"
    /\ n_failed = 3
    /\ cfg.base_delay = 1
    /\ cfg.max_delay = 1
    /\ sleeps = <<1, 1>>

\* C4: call_llm_async never raises, for any configuration and any adapter
\* behaviour.
C4_NeverRaises == pc # "raised"

\* C5: for the draft and refine stages every outcome of the call ends in a
\* well-formed response (live output or the static fallback), never in an
\* error response.
C5_AlwaysWellFormed ==
    (pc = "responded" /\ stage \in {"draft", "refine"} /\ ~IsNone(result)) =>
        Get(resp).kind = "ok"

\* The static fallback document of a stage, parsed.
FallbackObject == IF stage = "draft" THEN Dict("FD") ELSE Dict("FR")

\* The three causes of C6, on the returned result.
C6_Cause ==
    \/ ~Get(result).success
    \/ IsNone(Get(result).content)
    \/ Get(Get(result).content) = <<>>
    \/ json_loads(strip_code_fences(Get(Get(result).content))).exc
          = "JSONDecodeError"

C7_QueriesFallback ==
    (pc = "responded" /\ stage = "queries" /\ ~IsNone(result)) =>
        /\ CallFailed(Get(result)) =>
              /\ Get(resp).kind = "ok"
              /\ Get(resp).from_fallback
              /\ Get(resp).body = <<>>
        /\ Get(resp).kind = "ok" =>
              /\ Get(resp).from_fallback <=> Get(resp).body = <<>>
              /\ ~CallFailed(Get(result)) =>
                    Get(resp).body = normalize_jsonl(Get(Get(result).content))

\* C7 witness: a successful call whose content is an empty JSON array.
C7_Witness ==
    /\ pc = "responded"
    /\ stage = "queries"
    /\ Get(result).success
    /\ Get(result).content = Some(<<"[", "]">>)
    /\ Get(resp).from_fallback
    /\ Get(resp).body = <<>>

\* The identifier has a separator and the text before the first one is no
\* known provider tag.
UnknownProvider(m) ==
    /\ HasColon(m)
    /\ ~LLMProvider(LowerSeq(SubSeq(m, 1, FirstColon(m) - 1))).ok

\* C8 as stated: an unknown provider returns a failure at once, with no
\* adapter invoked and no sleep.
C8_UnknownProviderFailsAtOnce ==
    (Returned /\ UnknownProvider(model)) =>
        /\ ~Get(result).success
        /\ calls = <<>>
        /\ sleeps = <<>>

\* C8 amended: an unknown provider is resolved to the default provider openai
\* with the whole identifier as model name; the call runs the OpenAI adapter
\* with that name on every attempt and returns its outcome, never the
\* unsupported-provider failure.
C8_UnknownProviderDefaults ==
    (UnknownProvider(model) /\ pc # "start") =>
        /\ vendor = "openai"
        /\ name = model
        /\ \A i \in 1..Len(calls) : calls[i] = [adapter |-> "openai", model |-> model]
        /\ Returned =>
              /\ Get(result).provider = "openai"
              /\ Get(result).model = model
              /\ cfg.max_retries >= 1 => calls # <<>>
              /\ Get(result).success \/ Get(result).error = last_error

\* C8 witness: "foo:m" with the key set and a retry budget of 3: the OpenAI
\* adapter ran three times and slept twice before the failure was returned.
C8_Witness ==
    /\ pc = "done"
    /\ model = <<"foo", ":", "m">>
    /\ env.openai
    /\ Len(calls) = 3
    /\ Len(sleeps) = 2
    /\ ~Get(result).success

\* The identifier starts with one word that is, case-insensitively, a known
\* provider tag, followed by the first separator.
KnownTag(m) ==
    /\ Len(m) >= 2
    /\ m[1] # ":"
    /\ m[2] = ":"
    /\ Lower(m[1]) \in ProviderValues

\* C9: parse_model_string always returns a pair with a known provider: the
\* tag's provider and the text after the first ':' when the text before it
\* is, case-insensitively, a known tag; the default provider and the entire
\* identifier in every other case.  It never raises: the step is enabled on
\* every identifier.
C9_ParseModelString ==
    /\ pc = "parse" => ENABLED ParseStep
    /\ pc = "parsed" =>
          /\ vendor \in ProviderValues
          /\ IF KnownTag(model)
             THEN vendor = Lower(model[1]) /\ name = SubSeq(model, 3, Len(model))
             ELSE vendor = "openai" /\ name = model

\* C9 witness: "Google::" parses to (google, ":"): the tag is matched
\* case-insensitively and only the first separator splits.
C9_Witness ==
    /\ pc = "parsed"
    /\ model = <<"Google", ":", ":">>
    /\ vendor = "google"
    /\ name = <<":">>

\* C10: the latency on the returned result is the time since the start of the
\* call: at least the durations of all attempts plus all sleeps, and so at
\* least the duration of the latest attempt.
C10_LatencyEndToEnd ==
    Returned =>
        /\ Get(result).latency_ms = now - start_time
        /\ Get(result).latency_ms >= busy + SumSeq(sleeps)

\* C10 witness: a success on a later attempt whose latency exceeds the
\* duration of that attempt.
C10_Witness ==
    /\ pc = "done"
    /\ Get(result).success
    /\ n_failed = 2
    /\ SumSeq(sleeps) > 0
    /\ Get(result).latency_ms > now - attempt_start

\* C11: every adapter attempt that returns has lasted at most the configured
\* per-attempt timeout, for the OpenAI adapter and for the Gemini adapter
\* alike, however slow the backend is.
C11_AttemptWithinTimeout ==
    (~IsNone(last_attempt) /\ ~Get(last_attempt).raised) =>
        Get(last_attempt).dur <= cfg.timeout_seconds

\* The adapter attempts that have finished, by returning or by raising, or
\* were abandoned by a cancellation.
Finished ==
    n_failed + (IF ~IsNone(last_attempt) /\ ~Get(last_attempt).raised
                   /\ Get(last_attempt).response.success THEN 1 ELSE 0)
             + (IF pc = "cancelled" /\ Get(cancelled).during = "awaiting"
                THEN 1 ELSE 0)

\* C20: within one invocation at most one adapter attempt is in flight: an
\* attempt is started only when every earlier one has finished, a later
\* attempt starts no sooner than the backoff sleep after the end of the one
\* before it, and every attempt of the call goes to the same adapter.
C20_OneAttemptInFlight ==
    /\ Len(calls) - Finished \in {0, 1}
    /\ Len(calls) - Finished = 1 <=> pc = "awaiting"
    /\ (pc = "awaiting" /\ Len(calls) >= 2) =>
          /\ Len(sleeps) = Len(calls) - 1
          /\ attempt_start >= Get(last_attempt).ended + Last(sleeps)
    /\ \A i \in 1..Len(calls) : calls[i].adapter = calls[1].adapter

\* C20 witness: the third attempt is in flight; it began exactly when the
\* sleep of one unit after the second attempt's end was over.
C20_Witness ==
    /\ pc = "awaiting"
    /\ Len(calls) = 3
    /\ Finished = 2
    /\ Last(sleeps) = 1
    /\ attempt_start = Get(last_attempt).ended + 1

\* The error an adapter returns when its credential slot is empty.
CredentialError ==
    IF AdapterOf(vendor) = "openai" THEN Some(<<"OPENAI_API_KEY not set">>)
    ELSE Some(<<"GOOGLE_API_KEY not set">>)

\* The credential slot of the provider's adapter is empty.
CredentialAbsent ==
    \/ AdapterOf(vendor) = "openai" /\ ~env.openai
    \/ AdapterOf(vendor) = "gemini" /\ ~env.google

\* C22: with the provider's credential absent every attempt returns a
\* failure at once and sends nothing to the backend, and the call still runs
\* its whole budget: with max_retries = n >= 1 the adapter is invoked n times,
\* all n - 1 backoff sleeps are made, and the credential error is returned.
C22_MissingCredentialBurnsBudget ==
    (pc # "start" /\ CredentialAbsent) =>
        /\ requests = 0
        /\ busy = 0
        /\ pc # "awaiting" => AllAttemptsFailed
        /\ ~IsNone(last_attempt) =>
              /\ ~Get(last_attempt).raised
              /\ Get(last_attempt).error = CredentialError
              /\ Get(last_attempt).dur = 0
        /\ (Returned /\ cfg.max_retries >= 1) =>
              /\ Len(calls) = cfg.max_retries
              /\ Len(sleeps) = cfg.max_retries - 1
              /\ ~Get(result).success
              /\ Get(result).error = CredentialError

\* C22 witness: no GOOGLE_API_KEY and a budget of three: three invocations,
\* two sleeps, nothing sent, the credential error returned.
C22_Witness ==
    /\ pc = "done"
    /\ vendor = "gemini"
    /\ ~env.google
    /\ cfg.max_retries = 3
    /\ Len(calls) = 3
    /\ Len(sleeps) = 2
    /\ requests = 0
    /\ Get(result).error = Some(<<"GOOGLE_API_KEY not set">>)

\* C26: every result returned with success=false has no content and carries
\* an error description, for every configuration, max_retries = 0 included.
C26_FailureCarriesError ==
    (Returned /\ ~Get(result).success) =>
        /\ IsNone(Get(result).content)
        /\ ~IsNone(Get(result).error)
        /\ Get(Get(result).error) # <<>>

\* C27: every result returned with success=true carries non-empty content,
\* whichever adapter produced it: a backend reply whose text is missing or
\* empty is a failed attempt.
C27_SuccessHasContent ==
    (Returned /\ Get(result).success) => Truthy(Get(result).content)

\* C28: on every return path the result's provider is the provider resolved
\* from the model identifier and its model is the resolved name; a "google:"
\* identifier gets the same provider on success as on failure.
C28_ProviderAndModelResolved ==
    Returned =>
        /\ Get(result).provider = parse_model_string(model).provider
        /\ Get(result).model = parse_model_string(model).name

\* C29: for every result the call can return, the synchronous stage (which
\* sees the content alone) and the asynchronous stage (which tests success and
\* content) answer alike: the same from_fallback flag and the same structure.
C29_SyncAsyncAgree ==
    (pc = "responded" /\ ~IsNone(result) /\ ~IsNone(sync_resp)) =>
        sync_resp = resp

\* C21: a cancellation delivered while the call awaits an adapter attempt or
\* a backoff sleep ends the call there: it is not counted as a failed attempt,
\* and no adapter attempt, no sleep and no result follows it.
C21_CancellationStops ==
    ~IsNone(cancelled) =>
        /\ pc = "cancelled"
        /\ Len(calls) = Get(cancelled).calls
        /\ Len(sleeps) = Get(cancelled).sleeps
        /\ n_failed = Get(cancelled).n_failed
        /\ IsNone(result)
        /\ IsNone(resp)

\* C21 witness: the second of three attempts is cancelled in flight, after
\* one failure and one sleep; the call has stopped with budget left.
C21_Witness ==
    /\ pc = "cancelled"
    /\ Get(cancelled).during = "awaiting"
    /\ cfg.max_retries = 3
    /\ Len(calls) = 2
    /\ Len(sleeps) = 1
    /\ n_failed = 1

\* ---------------------------------------------------- canonicalizer (C12)

\* Python values as deep_sort sees them.  A dict is the sequence of its
\* <<key, value>> pairs in insertion order, with distinct keys; a list is the
\* sequence of its elements; everything else is a scalar with its JSON text.
PyScalar(text) == [kind |-> "scalar", items |-> <<>>, text |-> text]
PyList(items) == [kind |-> "list", items |-> items, text |-> ""]
PyDict(pairs) == [kind |-> "dict", items |-> pairs, text |-> ""]
\* A tuple is no list to deep_sort, and an array to json.dumps.
PyTuple(items) == [kind |-> "tuple", items |-> items, text |-> ""]

\* The keys that occur, in ascending order of str comparison.
KeyOrder ==
    << "a", "b", "borderline_examples", "doc_types", "exclude",
       "exclusion_criteria", "exclusion_criteria_refined", "include",
       "inclusion_criteria", "inclusion_criteria_refined", "keywords",
       "languages", "picos", "rationales", "research_questions",
       "risks_and_ambiguities", "screening", "sources", "synonyms", "years" >>

HasKeyIn(pairs, k) == \E i \in 1..Len(pairs) : pairs[i][1] = k
ValueOf(pairs, k) == pairs[CHOOSE i \in 1..Len(pairs) : pairs[i][1] = k][2]

\* sorted(obj): the keys of the dict in ascending order.
SortedKeys(pairs) == SelectSeq(KeyOrder, LAMBDA k : HasKeyIn(pairs, k))

\* Mutant: only the outermost dict is rebuilt in key order.
deep_sort_shallow(obj) ==
    IF obj.kind = "dict"
    THEN LET ks == SortedKeys(obj.items)
         IN  PyDict([i \in 1..Len(ks) |-> <<ks[i], ValueOf(obj.items, ks[i])>>])
    ELSE obj

RECURSIVE deep_sort(_)
deep_sort(obj) ==
    IF obj.kind = "dict"
    THEN LET ks == SortedKeys(obj.items)
         IN  PyDict([i \in 1..Len(ks) |->
                        <<ks[i], deep_sort(ValueOf(obj.items, ks[i]))>>])
    ELSE IF obj.kind = "list"
    THEN PyList([i \in 1..Len(obj.items) |-> deep_sort(obj.items[i])])
    ELSE obj

\* json.dumps(obj, ensure_ascii=False, separators=(",", ":")): the text as a
\* sequence of tokens; a key is written as a quoted string.
RECURSIVE json_dumps(_)
RECURSIVE DumpItems(_, _)
json_dumps(obj) ==
    IF obj.kind = "dict" THEN <<"{">> \o DumpItems(obj.items, TRUE) \o <<"}">>
    ELSE IF obj.kind \in {"list", "tuple"}
    THEN <<"[">> \o DumpItems(obj.items, FALSE) \o <<"]">>
    ELSE <<obj.text>>

DumpItems(items, keyed) ==
    IF items = <<>> THEN <<>>
    ELSE (IF keyed
          THEN <<"\"", Head(items)[1], "\"", ":">> \o json_dumps(Head(items)[2])
          ELSE json_dumps(Head(items)))
         \o (IF Len(items) > 1 THEN <<",">> ELSE <<>>)
         \o DumpItems(Tail(items), keyed)

canonical_json_string(obj) == json_dumps(deep_sort(obj))

\* Values of nesting depth at most two over two keys and two numbers.
CanonScalars == { PyScalar("1"), PyScalar("2") }
SeqsUpTo2(S) == {<<>>} \cup { <<x>> : x \in S } \cup { <<x, y>> : x \in S, y \in S }
DictsOver(S) ==
    { PyDict(<<>>) }
    \cup { PyDict(<< <<k, v>> >>) : k \in {"a", "b"}, v \in S }
    \cup { PyDict(<< <<"a", v>>, <<"b", w>> >>) : v \in S, w \in S }
    \cup { PyDict(<< <<"b", w>>, <<"a", v>> >>) : v \in S, w \in S }
CanonInner ==
    { PyScalar("1"),
      PyList(<<PyScalar("1"), PyScalar("2")>>),
      PyList(<<PyScalar("2"), PyScalar("1")>>),
      PyDict(<< <<"a", PyScalar("1")>>, <<"b", PyScalar("2")>> >>),
      PyDict(<< <<"b", PyScalar("2")>>, <<"a", PyScalar("1")>> >>) }
CanonValues ==
    CanonScalars
    \cup { PyList(xs) : xs \in SeqsUpTo2(CanonScalars) }
    \cup DictsOver(CanonScalars)
    \cup { PyList(xs) : xs \in SeqsUpTo2(CanonInner) }
    \cup DictsOver(CanonInner)

\* The state with no invocation of call_llm_async in it.
NoCall ==
    /\ model = <<>>
    /\ cfg = [max_retries |-> 0, base_delay |-> 0, max_delay |-> 0,
              timeout_seconds |-> 1]
    /\ env = [openai |-> FALSE, google |-> FALSE]
    /\ stage = "draft"
    /\ InitLocals

InitCanon ==
    /\ NoCall
    /\ pc = "canon"
    /\ arg \in [a : CanonValues, b : CanonValues]
    /\ ret = None
    /\ frozen = <<>>
    /\ tasks = <<>>
    /\ genai = None
    /\ ExtIdle

\* canonical_json_string applied to both values (and deep_sort to the first).
Canonicalize ==
    /\ pc = "canon"
    /\ ret' = Some([a |-> canonical_json_string(arg.a),
                    b |-> canonical_json_string(arg.b),
                    sorted |-> deep_sort(arg.a)])
    /\ pc' = "canonical"
    /\ UNCHANGED <<inputs, vendor, name, attempt, start_time, now, last_error,
                   result, resp, calls, sleeps, last_attempt, busy, attempt_start,
                   n_failed, arg, frozen, tasks, genai, ext>>

NextCanon == Canonicalize

SpecCanon == InitCanon /\ [][NextCanon]_vars

\* The two values are equal up to the order of the keys of their dicts, at
\* every depth: lists agree element by element, in order.
RECURSIVE SameUpToKeyOrder(_, _)
SameUpToKeyOrder(x, y) ==
    /\ x.kind = y.kind
    /\ Len(x.items) = Len(y.items)
    /\ x.kind = "scalar" => x.text = y.text
    /\ x.kind = "list" =>
          \A i \in 1..Len(x.items) : SameUpToKeyOrder(x.items[i], y.items[i])
    /\ x.kind = "dict" =>
          \A i \in 1..Len(x.items) : \E j \in 1..Len(y.items) :
              /\ x.items[i][1] = y.items[j][1]
              /\ SameUpToKeyOrder(x.items[i][2], y.items[j][2])

\* C12: canonical_json_string(A) = canonical_json_string(B) exactly when A and
\* B differ at most by the key order of dicts at any depth; in particular the
\* texts differ when a list at any depth has its elements in another order.
\* deep_sort keeps every list in its original order.
C12_KeyOrderOnly ==
    pc = "canonical" =>
        /\ (Get(ret).a = Get(ret).b) <=> SameUpToKeyOrder(arg.a, arg.b)
        /\ SameUpToKeyOrder(Get(ret).sorted, arg.a)

\* C12 witness: two nested values with the keys in another order at both
\* depths get one text; the inner list [1,2] kept its order.
C12_Witness ==
    /\ pc = "canonical"
    /\ arg.a = PyDict(<< <<"b", PyDict(<< <<"b", PyScalar("2")>>, <<"a", PyScalar("1")>> >>)>>,
                         <<"a", PyList(<<PyScalar("1"), PyScalar("2")>>)>> >>)
    /\ arg.b = PyDict(<< <<"a", PyList(<<PyScalar("1"), PyScalar("2")>>)>>,
                         <<"b", PyDict(<< <<"a", PyScalar("1")>>, <<"b", PyScalar("2")>> >>)>> >>)
    /\ Get(ret).a = Get(ret).b
    /\ Get(ret).a = << "{", "\"", "a", "\"", ":", "[", "1", ",", "2", "]", ",",
                       "\"", "b", "\"", ":", "{", "\"", "a", "\"", ":", "1", ",",
                       "\"", "b", "\"", ":", "2", "}", "}" >>

\* ------------------------------------------------- freeze stage (C13, C14)

\* Most freeze requests one run serves.
MaxFreezes == 3
\* The clock of the freeze runs is not advanced past this value.
MaxFreezeClock == 3

\* Mutant: the digest is salted with the current time.
sha256_text_timed(t) == <<"sha256", t, now>>

\* hashlib.sha256(s.encode("utf-8")).hexdigest(), as an ideal digest: equal
\* texts, and only equal texts, have equal digests.
sha256_text(t) == <<"sha256", t>>

\* dict.get(k, default)
DictGet(d, k, default) ==
    IF HasKeyIn(d.items, k) THEN ValueOf(d.items, k) ELSE default

\* d[k] = v: the value of a present key is replaced in place, a new key is
\* appended.
DictSet(d, k, v) ==
    IF HasKeyIn(d.items, k)
    THEN PyDict([i \in 1..Len(d.items) |->
                    IF d.items[i][1] = k THEN <<k, v>> ELSE d.items[i]])
    ELSE PyDict(Append(d.items, <<k, v>>))

Strs(ws) == PyList([i \in 1..Len(ws) |-> PyScalar(ws[i])])

\* Protocol.model_dump(): the fields in declaration order, the year range a
\* tuple, the optional sections absent (null).
ProtocolDump(inclusion, exclusion) ==
    PyDict(<< <<"research_questions", Strs(<<"q">>)>>,
              <<"picos", PyScalar("null")>>,
              <<"keywords", PyDict(<< <<"include", Strs(<<"k">>)>>,
                                      <<"exclude", Strs(<<>>)>>,
                                      <<"synonyms", PyScalar("null")>> >>)>>,
              <<"screening",
                PyDict(<< <<"inclusion_criteria", Strs(inclusion)>>,
                          <<"exclusion_criteria", Strs(exclusion)>>,
                          <<"years", PyTuple(<<PyScalar("2020"), PyScalar("2025")>>)>>,
                          <<"languages", Strs(<<"en">>)>>,
                          <<"doc_types", Strs(<<"journal">>)>> >>)>>,
              <<"sources", Strs(<<"arxiv">>)>>,
              <<"rationales", PyScalar("null")>> >>)

\* Refinements.model_dump(): both refined lists are required fields, either
\* may be empty.
RefinementsDump(inclusion, exclusion) ==
    PyDict(<< <<"inclusion_criteria_refined", Strs(inclusion)>>,
              <<"exclusion_criteria_refined", Strs(exclusion)>>,
              <<"borderline_examples", Strs(<<>>)>>,
              <<"risks_and_ambiguities", Strs(<<>>)>> >>)

\* The protocols and refinements of the freeze requests drawn.
ProtocolSamples ==
    { ProtocolDump(<<"i1">>, <<>>), ProtocolDump(<<"i1", "i2">>, <<"e1">>) }
RefinementsSamples ==
    { RefinementsDump(i, e) : i \in {<<>>, <<"i3">>}, e \in {<<>>, <<"e2">>} }

\* Protocol.model_validate on a merged dump: of the constraints of Protocol,
\* Keywords and Screening only min_length=1 of inclusion_criteria can fail,
\* every other field comes unchanged from a validated Protocol.
Protocol_model_validate(proto) ==
    ValueOf(ValueOf(proto.items, "screening").items, "inclusion_criteria").items # <<>>

\* Mutant: only the inclusion criteria are overridden.
merge_refinements_inclusion_only(proto, refinements) ==
    IF IsNone(refinements) THEN proto
    ELSE LET screening == DictGet(proto, "screening", PyDict(<<>>))
             s1 == DictSet(screening, "inclusion_criteria",
                      DictGet(Get(refinements), "inclusion_criteria_refined",
                              DictGet(screening, "inclusion_criteria", PyList(<<>>))))
         IN  DictSet(proto, "screening", s1)

\* Lines 371-386: the refinements merged into the dumped protocol.
merge_refinements(proto, refinements) ==
    IF IsNone(refinements) THEN proto
    ELSE LET ref == Get(refinements)
             screening == DictGet(proto, "screening", PyDict(<<>>))
             s1 == DictSet(screening, "inclusion_criteria",
                      DictGet(ref, "inclusion_criteria_refined",
                              DictGet(screening, "inclusion_criteria", PyList(<<>>))))
             s2 == DictSet(s1, "exclusion_criteria",
                      DictGet(ref, "exclusion_criteria_refined",
                              DictGet(s1, "exclusion_criteria", PyList(<<>>))))
         IN  DictSet(proto, "screening", s2)

\* api_freeze: merge, canonicalize, hash, stamp, validate.  A ValidationError
\* leaves the handler and is answered by global_exception_handler.
api_freeze(protocol, refinements, t) ==
    LET proto == merge_refinements(protocol, refinements)
        payload == canonical_json_string(proto)
        checksum == sha256_text(payload)
        manifest == [frozen_at_utc |-> t, protocol_sha256 |-> checksum,
                     source_files |-> <<"inline">>]
    IN  IF Protocol_model_validate(proto)
        THEN [kind |-> "ok", protocol |-> proto, manifest |-> manifest]
        ELSE [kind |-> "error", protocol |-> PyDict(<<>>),
              manifest |-> [frozen_at_utc |-> 0, protocol_sha256 |-> <<>>,
                            source_files |-> <<>>]]

InitFreeze ==
    /\ NoCall
    /\ pc = "serving"
    /\ arg = <<>>
    /\ ret = None
    /\ frozen = <<>>
    /\ tasks = <<>>
    /\ genai = None
    /\ ExtIdle

\* One POST /freeze, served at the current time.
Freeze(protocol, refinements) ==
    /\ pc = "serving"
    /\ Len(frozen) < MaxFreezes
    /\ frozen' = Append(frozen, [protocol |-> protocol, refinements |-> refinements,
                                 at |-> now,
                                 resp |-> api_freeze(protocol, refinements, now)])
    /\ UNCHANGED <<inputs, pc, vendor, name, attempt, start_time, now, last_error,
                   result, resp, calls, sleeps, last_attempt, busy, attempt_start,
                   n_failed, arg, ret, tasks, genai, ext>>

\* Time passes between requests.
Tick ==
    /\ pc = "serving"
    /\ now < MaxFreezeClock
    /\ now' = now + 1
    /\ UNCHANGED <<inputs, pc, vendor, name, attempt, start_time, last_error,
                   result, resp, calls, sleeps, last_attempt, busy, attempt_start,
                   n_failed, others>>

NextFreeze ==
    \/ \E p \in ProtocolSamples, r \in {None} \cup { Some(x) : x \in RefinementsSamples } :
          Freeze(p, r)
    \/ Tick

SpecFreeze == InitFreeze /\ [][NextFreeze]_vars

At2(d, k1, k2) == ValueOf(ValueOf(d.items, k1).items, k2)

\* The keys of a dict, in order.
Keys(d) == [i \in 1..Len(d.items) |-> d.items[i][1]]

\* C14: with refinements the returned protocol's screening.inclusion_criteria
\* and screening.exclusion_criteria are the refined lists, every other
\* screening field and every other section is the input's; without
\* refinements the returned protocol is the input protocol.
C14_MergeFrame ==
    \A i \in 1..Len(frozen) :
        LET f == frozen[i]
            out == f.resp.protocol
        IN  f.resp.kind = "ok" =>
              /\ IsNone(f.refinements) => out = f.protocol
              /\ ~IsNone(f.refinements) =>
                    /\ At2(out, "screening", "inclusion_criteria")
                         = ValueOf(Get(f.refinements).items, "inclusion_criteria_refined")
                    /\ At2(out, "screening", "exclusion_criteria")
                         = ValueOf(Get(f.refinements).items, "exclusion_criteria_refined")
                    /\ Keys(out) = Keys(f.protocol)
                    /\ \A k \in {"research_questions", "picos", "keywords",
                                 "sources", "rationales"} :
                          ValueOf(out.items, k) = ValueOf(f.protocol.items, k)
                    /\ Keys(ValueOf(out.items, "screening"))
                         = Keys(ValueOf(f.protocol.items, "screening"))
                    /\ \A k \in {"years", "languages", "doc_types"} :
                          At2(out, "screening", k) = At2(f.protocol, "screening", k)

\* C14 witness: a protocol with criteria [i1, i2] / [e1] frozen with the
\* refinements [i3] / []: the response holds the refined lists.
C14_Witness ==
    /\ Len(frozen) >= 1
    /\ frozen[1].protocol = ProtocolDump(<<"i1", "i2">>, <<"e1">>)
    /\ frozen[1].refinements = Some(RefinementsDump(<<"i3">>, <<>>))
    /\ frozen[1].resp.kind = "ok"
    /\ frozen[1].resp.protocol = ProtocolDump(<<"i3">>, <<>>)

\* ------------------------------------------------ fence stripping (C15, C16)

\* Most pieces a text given to strip_code_fences is made of.
MaxPieces == 5

\* The pieces: a backtick, the three markers, the tags and their letters
\* alone, whitespace, a payload character.
FencePieces ==
    { <<"BT">>, FENCE, FENCE_JSON, FENCE_JSONL, <<"j", "s", "o", "n">>, <<"l">>,
      <<"SP">>, <<"NL">>, <<"x">> }

RECURSIVE Concat(_)
Concat(ps) == IF ps = <<>> THEN <<>> ELSE Head(ps) \o Concat(Tail(ps))

FenceTexts == { Concat(ps) : ps \in UNION { [1..n -> FencePieces] : n \in 0..MaxPieces } }

InitFences ==
    /\ NoCall
    /\ pc = "fenced"
    /\ arg \in FenceTexts
    /\ ret = None
    /\ frozen = <<>>
    /\ tasks = <<>>
    /\ genai = None
    /\ ExtIdle

\* strip_code_fences applied once, and again to its own output.
StripFences ==
    /\ pc = "fenced"
    /\ ret' = Some([once |-> strip_code_fences(arg),
                    twice |-> strip_code_fences(strip_code_fences(arg))])
    /\ pc' = "stripped"
    /\ UNCHANGED <<inputs, vendor, name, attempt, start_time, now, last_error,
                   result, resp, calls, sleeps, last_attempt, busy, attempt_start,
                   n_failed, arg, frozen, tasks, genai, ext>>

NextFences == StripFences

SpecFences == InitFences /\ [][NextFences]_vars

\* The text holds three consecutive backticks.
HasFence(t) == \E i \in 1..(Len(t) - 2) : SubSeq(t, i, i + 2) = FENCE

\* C15: strip_code_fences is idempotent, also when removing a marker joins
\* backticks into a new fence, and its output holds no three consecutive
\* backticks.
C15_Idempotent ==
    pc = "stripped" =>
        /\ Get(ret).twice = Get(ret).once
        /\ ~HasFence(Get(ret).once)

\* C15 witness: in "`" "```json" "``" the removal of the json marker joins
\* the backticks around it into a plain marker; the output is empty.
C15_Witness ==
    /\ pc = "stripped"
    /\ arg = <<"BT">> \o FENCE_JSON \o <<"BT", "BT">>
    /\ Get(ret).once = <<>>
    /\ Get(ret).twice = <<>>

\* The payload x wrapped in a fence that opens with the marker m.
Wrapped(m) == m \o <<"NL", "x", "NL">> \o FENCE

\* C16: a payload without backticks wrapped in a plain, a json-tagged or a
\* jsonl-tagged fence comes out as exactly the trimmed payload, no character
\* of the marker or its tag left behind.
C16_MarkersRemoved ==
    \A m \in {FENCE, FENCE_JSON, FENCE_JSONL} :
        (pc = "stripped" /\ arg = Wrapped(m)) => Get(ret).once = <<"x">>

\* ------------------------------------------------- normalize_jsonl (C17, C18)

\* Longest text drawn for normalize_jsonl, in atoms.
MaxTextLen == 5

JsonlAtoms == {"[", "]", ",", "Q", "E", "1", "x", "NL", "SP"}

\* Every text of up to MaxTextLen atoms, the texts a backend generates, and an
\* array followed by blank lines and a malformed line, bare and fenced.
JsonlTexts ==
    UNION { [1..n -> JsonlAtoms] : n \in 0..MaxTextLen }
    \cup ContentSamples
    \cup { <<"[", "Q", ",", "1", "]", "NL", "NL", "x">>,
           FENCE_JSON \o <<"NL", "[", "Q", ",", "1", ",", "E", "]", "NL">> \o FENCE,
           FENCE_JSON \o <<"NL", "Q", "NL", "NL", "x", "NL", "E", "NL">> \o FENCE }

InitJsonl ==
    /\ NoCall
    /\ pc = "raw"
    /\ arg \in JsonlTexts
    /\ ret = None
    /\ frozen = <<>>
    /\ tasks = <<>>
    /\ genai = None
    /\ ExtIdle

\* normalize_jsonl applied to the text.
NormalizeJsonl ==
    /\ pc = "raw"
    /\ ret' = Some(normalize_jsonl(arg))
    /\ pc' = "normalized"
    /\ UNCHANGED <<inputs, vendor, name, attempt, start_time, now, last_error,
                   result, resp, calls, sleeps, last_attempt, busy, attempt_start,
                   n_failed, arg, frozen, tasks, genai, ext>>

NextJsonl == NormalizeJsonl

SpecJsonl == InitJsonl /\ [][NextJsonl]_vars

\* The fence-stripped text parses as a whole as a JSON array.
WholeArray(t) ==
    /\ json_loads(strip_code_fences(t)).ok
    /\ json_loads(strip_code_fences(t)).val.kind = "list"

IsMapping(v) == v.kind = "dict"

\* C17: when the fence-stripped text parses as a whole as a JSON array, the
\* result is the array's mapping elements in their order, every other element
\* dropped; the lines of the text are not parsed one by one.
C17_WholeArray ==
    (pc = "normalized" /\ WholeArray(arg)) =>
        Get(ret) = SelectSeq(json_loads(strip_code_fences(arg)).val.items, IsMapping)

\* C17 witness: the fenced array [Q, 1, {}] on a line of its own gives the two
\* mappings Q and {}; parsed as a line it would give none.
C17_Witness ==
    /\ pc = "normalized"
    /\ arg = FENCE_JSON \o <<"NL", "[", "Q", ",", "1", ",", "E", "]", "NL">> \o FENCE
    /\ Get(ret) = <<Dict("Q"), Dict("E")>>

\* The non-blank lines of the fence-stripped text that parse as a mapping.
MappingLines(t) ==
    SelectSeq(SplitLines(strip_code_fences(t), <<>>),
              LAMBDA l : /\ Strip(l) # <<>>
                         /\ json_loads(Strip(l)).ok
                         /\ IsMapping(json_loads(Strip(l)).val))

\* C18: normalize_jsonl returns a list on every text, a JSONDecodeError of the
\* whole text or of a line being no way out of it; when the whole text is no
\* JSON array the result is the mappings of the non-blank lines that parse
\* as JSON, in line order (empty when no line qualifies); every element
\* returned is a mapping.
C18_LinesNeverRaise ==
    pc = "normalized" =>
        /\ ~IsNone(ret)
        /\ \A i \in 1..Len(Get(ret)) : IsMapping(Get(ret)[i])
        /\ ~WholeArray(arg) =>
              /\ Len(Get(ret)) = Len(MappingLines(arg))
              /\ \A i \in 1..Len(Get(ret)) :
                    Get(ret)[i] = json_loads(Strip(MappingLines(arg)[i])).val

\* C18 witness: a fenced text of the lines Q, blank, malformed, {} does not
\* parse as a whole and gives Q and {} in that order.
C18_Witness ==
    /\ pc = "normalized"
    /\ arg = FENCE_JSON \o <<"NL", "Q", "NL", "NL", "x", "NL", "E", "NL">> \o FENCE
    /\ ~json_loads(strip_code_fences(arg)).ok
    /\ Get(ret) = <<Dict("Q"), Dict("E")>>

\* ------------------------------------------- concurrent invocations (C19)

\* The invocations running concurrently on one event loop.
NumTasks == 2
\* Largest max_retries drawn for concurrent invocations.
MaxPairRetries == 2

TaskIds == 1..NumTasks

\* The configuration the invocations share: read by all, written by none.
PairConfigs ==
    [max_retries : 1..MaxPairRetries, base_delay : {1}, max_delay : {1},
     timeout_seconds : {1}]

PairModels == { <<"gemini", ":", "m">>, <<"openai", ":", "m">> }

\* What a backend answers to the requests of concurrent invocations.
PairReplies ==
    { [kind |-> "exc", msg |-> "e1", content |-> None, tokens |-> None],
      [kind |-> "text", msg |-> "", content |-> Some(<<"P">>), tokens |-> None],
      [kind |-> "text", msg |-> "", content |-> None, tokens |-> None] }

\* The locals of one invocation of call_llm_async.
NewTask(m) ==
    [model |-> m, pc |-> "start", vendor |-> "", name |-> <<>>, attempt |-> 0,
     last_error |-> None, sleeps |-> <<>>, calls |-> 0, result |-> None,
     began_during |-> {}]

\* Invocation i is inside the request of the Gemini adapter (lines 207-210).
InGeminiCall(i) ==
    /\ tasks[i].pc = "awaiting"
    /\ AdapterOf(tasks[i].vendor) = "gemini"
    /\ env.google

\* Mutant: generate_content is called on the thread of the event loop.
BlockingCallOnLoop(adapter) == "loop"

\* Lines 207-210: loop.run_in_executor(None, model_instance.generate_content,
\* prompt) runs the blocking SDK call on a thread of the default executor;
\* the OpenAI client is awaited on the loop and blocks no thread.
BlockingCallThread(adapter) == IF adapter = "gemini" THEN "worker" ELSE "none"

\* The event loop can run a step of invocation i: no blocking call occupies
\* its thread, or the call that does is i's own and is what returns.
LoopRuns(i) == IsNone(loop_thread) \/ loop_thread = Some(i)

InitPair ==
    /\ model = <<>>
    /\ cfg \in PairConfigs
    /\ env \in Envs
    /\ stage = "draft"
    /\ pc = "concurrent"
    /\ InitLocals
    /\ arg = <<>>
    /\ ret = None
    /\ frozen = <<>>
    /\ tasks \in [TaskIds -> { NewTask(m) : m \in PairModels }]
    /\ genai = None
    /\ ExtIdle

singles == <<inputs, pc, vendor, name, attempt, start_time, now, last_error,
             result, resp, calls, sleeps, last_attempt, busy, attempt_start,
             n_failed, arg, ret, frozen, cancelled, requests, sync_resp,
             buckets>>

\* Lines 58-62 in invocation i.
TaskStart(i) ==
    /\ tasks[i].pc = "start"
    /\ LoopRuns(i)
    /\ LET parsed == parse_model_string(tasks[i].model)
       IN  tasks' = [tasks EXCEPT ![i].vendor = parsed.provider,
                                  ![i].name = parsed.name,
                                  ![i].pc = "loop",
                                  ![i].began_during =
                                      { j \in TaskIds : InGeminiCall(j) }]
    /\ UNCHANGED <<singles, genai, loop_thread>>

\* Lines 64-69 in invocation i, up to the adapter's await.  The Gemini adapter
\* with a credential first runs genai.configure(api_key=api_key) (line 191),
\* which sets the api_key of the google.generativeai module for the process.
TaskInvoke(i) ==
    /\ tasks[i].pc = "loop"
    /\ tasks[i].attempt < cfg.max_retries
    /\ LoopRuns(i)
    /\ tasks' = [tasks EXCEPT ![i].pc = "awaiting", ![i].calls = @ + 1]
    /\ genai' = IF AdapterOf(tasks[i].vendor) = "gemini" /\ env.google
                THEN Some([api_key |-> "GOOGLE_API_KEY", by |-> i])
                ELSE genai
    /\ loop_thread' =
         IF /\ HasKey(AdapterOf(tasks[i].vendor), env)
            /\ BlockingCallThread(AdapterOf(tasks[i].vendor)) = "loop"
         THEN Some(i) ELSE loop_thread
    /\ UNCHANGED singles

\* Lines 80-96 in invocation i: the adapter returns.
TaskReturns(i, reply) ==
    /\ tasks[i].pc = "awaiting"
    /\ LoopRuns(i)
    /\ loop_thread' = None
    /\ LET response == CallAdapter(AdapterOf(tasks[i].vendor), env, tasks[i].name, reply)
       IN  tasks' = IF Succeeded(response)
                    THEN [tasks EXCEPT ![i].result = Some(response), ![i].pc = "done"]
                    ELSE [tasks EXCEPT
                            ![i].last_error = NextLastError(@, response.error),
                            ![i].pc = "backoff"]
    /\ UNCHANGED <<singles, genai>>

\* Lines 98-102 in invocation i.
TaskBackoff(i) ==
    /\ tasks[i].pc = "backoff"
    /\ LoopRuns(i)
    /\ tasks' = IF ShouldSleep(cfg, tasks[i].attempt)
                THEN [tasks EXCEPT
                        ![i].sleeps = Append(@, backoff_delay(cfg, tasks[i].attempt)),
                        ![i].pc = "sleeping"]
                ELSE [tasks EXCEPT ![i].attempt = @ + 1, ![i].pc = "loop"]
    /\ UNCHANGED <<singles, genai, loop_thread>>

\* Line 102 in invocation i: the sleep ends.
TaskWake(i) ==
    /\ tasks[i].pc = "sleeping"
    /\ LoopRuns(i)
    /\ tasks' = [tasks EXCEPT ![i].attempt = @ + 1, ![i].pc = "loop"]
    /\ UNCHANGED <<singles, genai, loop_thread>>

\* Lines 104-118 in invocation i.
TaskExhausted(i) ==
    /\ tasks[i].pc = "loop"
    /\ tasks[i].attempt >= cfg.max_retries
    /\ LoopRuns(i)
    /\ tasks' = [tasks EXCEPT
                   ![i].result = Some(LLMResponse(None, FALSE, tasks[i].vendor,
                                                  tasks[i].name, 0, None,
                                                  tasks[i].last_error)),
                   ![i].pc = "done"]
    /\ UNCHANGED <<singles, genai, loop_thread>>

NextPair ==
    \E i \in TaskIds :
        \/ TaskStart(i)
        \/ TaskInvoke(i)
        \/ \E reply \in PairReplies : TaskReturns(i, reply)
        \/ TaskBackoff(i)
        \/ TaskWake(i)
        \/ TaskExhausted(i)

\* Concurrent invocations under every interleaving of their steps.
SpecPair == InitPair /\ [][NextPair]_vars

\* C19: the invocations write no state they share: nothing outside the
\* locals of an invocation is ever written by a step of call_llm_async or of
\* an adapter.
C19_NoSharedWrites == IsNone(genai)

\* Some step of invocation j.
TaskStep(j) ==
    \/ TaskStart(j)
    \/ TaskInvoke(j)
    \/ \E reply \in PairReplies : TaskReturns(j, reply)
    \/ TaskBackoff(j)
    \/ TaskWake(j)
    \/ TaskExhausted(j)

\* C25: while the Gemini backend call of one invocation is in progress the
\* thread of the event loop is not occupied by it, and every other
\* invocation that has not returned can take its next step.
C25_SchedulerNotBlocked ==
    \A i \in TaskIds :
        InGeminiCall(i) =>
            /\ IsNone(loop_thread)
            /\ \A j \in TaskIds \ {i} :
                  tasks[j].pc # "done" => ENABLED TaskStep(j)

\* C25 witness: invocation 1 is still inside its first Gemini backend call;
\* invocation 2 began after that call had started and has already returned,
\* after two attempts and the sleep between them.
C25_Witness ==
    /\ InGeminiCall(1)
    /\ tasks[1].calls = 1
    /\ tasks[2].began_during = {1}
    /\ tasks[2].pc = "done"
    /\ tasks[2].calls = 2
    /\ Len(tasks[2].sleeps) = 1

\* ------------------------------------------ _extract_gemini_text (C24)

\* A Gemini response object as _extract_gemini_text probes it.
\*  text: how the attribute "text" reads: "absent" (no such attribute),
\*    "attribute_error" / "value_error" (a property that raises the error),
\*    "flaky" (a property that reads once and raises on the next read),
\*    "value" (reads as the Optional text in value).
\*  candidates: "absent", "raises" (a property that raises), "none", or
\*    "list" with the candidates in items.
\* A candidate has content "absent", "no_parts" or "parts" with its parts;
\* a part has kind "text" (a str), "no_text" or "not_str" (text is no str).
GeminiResponse(text, value, candidates) ==
    [text |-> text, value |-> value, candidates |-> candidates]
Candidates(state, items) == [state |-> state, items |-> items]
Candidate(content, parts) == [content |-> content, parts |-> parts]
Part(kind, text) == [kind |-> kind, text |-> text]

Returns(v) == [raised |-> FALSE, cls |-> "", msg |-> "", value |-> v]
Raises(cls, msg) == [raised |-> TRUE, cls |-> cls, msg |-> msg, value |-> None]

\* The message of the ValueError the SDK's text property raises.
QuickAccessorError == "response.text quick accessor"

\* hasattr(obj, "text"): getattr, with only AttributeError turned into False;
\* any other exception of the property leaves hasattr.
hasattr_text(response) ==
    IF response.text = "value_error" THEN Raises("ValueError", QuickAccessorError)
    ELSE Returns(response.text \in {"value", "flaky"})

\* "".join(part.text for part in parts if hasattr(part, "text")); a text
\* that is no str raises TypeError.
RECURSIVE JoinParts(_)
JoinParts(parts) ==
    IF parts = <<>> THEN Returns(<<>>)
    ELSE LET rest == JoinParts(Tail(parts))
             part == Head(parts)
         IN  IF part.kind = "not_str" \/ rest.raised
             THEN Raises("TypeError", "expected str instance")
             ELSE IF part.kind = "no_text" THEN rest
             ELSE Returns(part.text \o rest.value)

\* Lines 263-273: the candidates structure, every exception ending in None.
candidates_text(response) ==
    LET c == response.candidates
    IN  IF c.state # "list" \/ c.items = <<>> THEN Returns(None)
        ELSE LET candidate == c.items[1]
             IN  IF candidate.content # "parts" THEN Returns(None)
                 ELSE LET joined == JoinParts(candidate.parts)
                      IN  IF joined.raised THEN Returns(None)
                          ELSE Returns(Some(joined.value))

\* Lines 254-273.  hasattr at line 257 is outside the try block of lines
\* 258-261.
_extract_gemini_text(response) ==
    LET has == hasattr_text(response)
    IN  IF has.raised THEN has
        ELSE IF has.value /\ response.text = "value" THEN Returns(response.value)
        ELSE candidates_text(response)

\* The response objects drawn.
TextReads ==
    { [text |-> t, value |-> None] : t \in {"absent", "attribute_error", "value_error"} }
    \cup { [text |-> t, value |-> v] :
             t \in {"value", "flaky"}, v \in {None, Some(<<>>), Some(<<"P">>)} }

PartsSamples ==
    { <<>>,
      <<Part("text", <<"P">>)>>,
      <<Part("text", <<"P">>), Part("text", <<"R">>)>>,
      <<Part("text", <<"P">>), Part("no_text", <<>>), Part("text", <<"R">>)>>,
      <<Part("no_text", <<>>)>>,
      <<Part("text", <<"P">>), Part("not_str", <<>>)>> }

CandidatesSamples ==
    { Candidates(st, <<>>) : st \in {"absent", "raises", "none", "list"} }
    \cup { Candidates("list", <<Candidate(c, <<>>)>>) : c \in {"absent", "no_parts"} }
    \cup { Candidates("list", <<Candidate("parts", ps)>>) : ps \in PartsSamples }
    \cup { Candidates("list", <<Candidate("parts", <<Part("text", <<"Q">>)>>),
                                Candidate("parts", <<Part("text", <<"R">>)>>)>>) }

GeminiResponses ==
    { GeminiResponse(r.text, r.value, c) : r \in TextReads, c \in CandidatesSamples }

InitExtract ==
    /\ NoCall
    /\ pc = "response"
    /\ arg \in GeminiResponses
    /\ ret = None
    /\ frozen = <<>>
    /\ tasks = <<>>
    /\ genai = None
    /\ ExtIdle

\* _extract_gemini_text applied to the response.
ExtractText ==
    /\ pc = "response"
    /\ ret' = Some(_extract_gemini_text(arg))
    /\ pc' = "extracted"
    /\ UNCHANGED <<inputs, vendor, name, attempt, start_time, now, last_error,
                   result, resp, calls, sleeps, last_attempt, busy, attempt_start,
                   n_failed, arg, frozen, tasks, genai, ext>>

NextExtract == ExtractText

SpecExtract == InitExtract /\ [][NextExtract]_vars

\* The text fragments of the first candidate, joined, when that shape matches.
FragmentsOf(response) ==
    IF /\ response.candidates.state = "list"
       /\ response.candidates.items # <<>>
       /\ response.candidates.items[1].content = "parts"
       /\ \A i \in 1..Len(response.candidates.items[1].parts) :
             response.candidates.items[1].parts[i].kind # "not_str"
    THEN Some(Concat([i \in 1..Len(response.candidates.items[1].parts) |->
                         response.candidates.items[1].parts[i].text]))
    ELSE None

\* C24: _extract_gemini_text never raises; it returns the direct text when
\* that form is present and readable; when the direct form is absent or
\* reading it fails it returns the joined text fragments of the first
\* candidate, and None when that shape does not match either.
C24_ExtractFallsBack ==
    pc = "extracted" =>
        /\ ~Get(ret).raised
        /\ arg.text = "value" => Get(ret).value = arg.value
        /\ arg.text # "value" => Get(ret).value = FragmentsOf(arg)

\* ------------------------------------------- inside the adapters (C23)

\* The steps of an adapter past its credential check: the SDK import (lines
\* 137 and 189), the client or model object (139-142 and 191-204), the
\* request (144-148 and 207-210), the reading of the response (150-151 and
\* 213) and of its token counts (227-232).
AdapterSteps == {"import", "client", "send", "decode", "usage"}

\* Mutant: the SDK is imported before the try block.
InTryAfterImport(step) == step # "import"

\* The try blocks of lines 136-161 and 188-241 enclose every step.
InTry(step) == step \in AdapterSteps

\* An exception raised at a step, as the reply the handler works on.
RaisedAt(step, cls, msg) ==
    [kind |-> "exc", msg |-> msg, content |-> None, tokens |-> None,
     step |-> step, cls |-> cls]
Answered(content, tokens) ==
    [kind |-> "text", msg |-> "", content |-> content, tokens |-> tokens,
     step |-> "", cls |-> ""]

\* What building and sending the request can raise.
Faults ==
    { RaisedAt("import", "ImportError", "No module named sdk"),
      RaisedAt("client", "ValueError", "bad option"),
      RaisedAt("send", "APIConnectionError", "Connection error."),
      RaisedAt("send", "AuthenticationError", "invalid api key") }

\* An OpenAI completion: its number of choices, the content of the first
\* one, its usage's total_tokens (usage may be None).
OpenAIResponses ==
    { [choices |-> 0, content |-> None, usage |-> None] }
    \cup { [choices |-> 1, content |-> c, usage |-> u] :
             c \in {None, Some(<<>>), Some(<<"P">>)}, u \in {None, Some(7)} }

\* usage_metadata of a Gemini response: no such attribute, two counts, or a
\* count that is None.
UsageSamples == {"absent", "counts", "none_count"}

\* Lines 136-151: the try block of _call_openai up to the result.
try_openai(fault, response) ==
    IF ~IsNone(fault) THEN Get(fault)
    ELSE IF response.choices = 0
    THEN RaisedAt("decode", "IndexError", "list index out of range")
    ELSE Answered(response.content, response.usage)

\* Lines 188-232: the try block of _call_gemini up to the result.
try_gemini(fault, response, usage) ==
    IF ~IsNone(fault) THEN Get(fault)
    ELSE LET x == _extract_gemini_text(response)
         IN  IF x.raised THEN RaisedAt("decode", x.cls, x.msg)
             ELSE IF ~Truthy(x.value) THEN Answered(x.value, None)
             ELSE IF usage = "none_count"
             THEN RaisedAt("usage", "TypeError", "unsupported operand type(s)")
             ELSE Answered(x.value, IF usage = "counts" THEN Some(7) ELSE None)

\* One adapter invocation: the credential check, the try block, and the
\* handler `except Exception` (lines 162-170 and 243-251), which catches what
\* is raised inside the try block.
adapter_call(scn) ==
    LET r == IF scn.adapter = "openai" THEN try_openai(scn.fault, scn.response)
             ELSE try_gemini(scn.fault, scn.response, scn.usage)
        e == [openai |-> scn.api_key, google |-> scn.api_key]
        raised == IF scn.api_key /\ r.kind = "exc" THEN Some(r) ELSE None
    IN  IF ~IsNone(raised) /\ ~(InTry(r.step) /\ IsException(r.cls))
        THEN [escaped |-> TRUE, raised |-> raised,
              response |-> LLMResponse(None, FALSE, "", <<>>, 0, None, None)]
        ELSE [escaped |-> FALSE, raised |-> raised,
              response |-> CallAdapter(scn.adapter, e, <<"m">>, r)]

AdapterScenarios ==
    { [adapter |-> "openai", api_key |-> k, fault |-> f, response |-> r,
       usage |-> "absent"] :
        k \in BOOLEAN, f \in {None} \cup { Some(x) : x \in Faults },
        r \in OpenAIResponses }
    \cup
    { [adapter |-> "gemini", api_key |-> k, fault |-> f, response |-> r,
       usage |-> u] :
        k \in BOOLEAN, f \in {None} \cup { Some(x) : x \in Faults },
        r \in GeminiResponses, u \in UsageSamples }

InitAdapter ==
    /\ NoCall
    /\ pc = "adapter"
    /\ arg \in AdapterScenarios
    /\ ret = None
    /\ frozen = <<>>
    /\ tasks = <<>>
    /\ genai = None
    /\ ExtIdle

\* The adapter runs to its end.
AdapterCall ==
    /\ pc = "adapter"
    /\ ret' = Some(adapter_call(arg))
    /\ pc' = "returned"
    /\ UNCHANGED <<inputs, vendor, name, attempt, start_time, now, last_error,
                   result, resp, calls, sleeps, last_attempt, busy, attempt_start,
                   n_failed, arg, frozen, tasks, genai, ext>>

NextAdapter == AdapterCall

SpecAdapter == InitAdapter /\ [][NextAdapter]_vars

\* The prefix an adapter puts before the message of what it caught.
ErrorPrefix(adapter) ==
    IF adapter = "openai" THEN "OpenAI API error: " ELSE "Gemini API error: "

\* C23: no exception leaves an adapter: whatever is raised while importing
\* the SDK, building the client, sending the request or reading the response
\* (a malformed response included), the adapter returns success=false, no
\* content and an error that embeds the message of what was raised.
C23_NoExceptionEscapes ==
    pc = "returned" =>
        /\ ~Get(ret).escaped
        /\ ~IsNone(Get(ret).raised) =>
              /\ ~Get(ret).response.success
              /\ IsNone(Get(ret).response.content)
              /\ Get(ret).response.error
                   = Some(<<ErrorPrefix(arg.adapter), Get(Get(ret).raised).msg>>)

\* C23 witness: an OpenAI completion with no choices: the IndexError of
\* reading choices[0] comes back as a failure result.
C23_Witness ==
    /\ pc = "returned"
    /\ arg.adapter = "openai"
    /\ arg.api_key
    /\ IsNone(arg.fault)
    /\ arg.response.choices = 0
    /\ Get(ret).response.error
         = Some(<<"OpenAI API error: ", "list index out of range">>)

\* ------------------------------------------------- RateLimiter (C30)

\* Largest burst_size drawn.
MaxBurst == 2
\* The clock of the rate limiter is not advanced past this value.
MaxLimiterClock == 5
\* Longest time between two readings of the clock, in seconds.
MaxStep == 2

\* Line 25: rate = requests_per_minute / 60.0 tokens per second.  With a clock
\* in whole seconds every token count is a multiple of 1/60: tokens are
\* counted in sixtieths, one token is SecondsPerMinute of them.
SecondsPerMinute == 60

Clients == {"a", "b"}

\* RateLimiter(requests_per_minute, burst_size)
LimiterConfigs ==
    [requests_per_minute : {0, 30, 60}, burst_size : 0..MaxBurst]

\* Lines 27-29: the bucket the defaultdict makes for a new client at time t.
NewBucket(limiter, t) ==
    [tokens |-> limiter.burst_size * SecondsPerMinute, last_update |-> t]

\* Mutant: the refill is not capped at the burst size.
_refill_bucket_uncapped(limiter, bucket, t) ==
    [tokens |-> bucket.tokens + (t - bucket.last_update) * limiter.requests_per_minute,
     last_update |-> t]

\* Lines 43-51, with time.time() reading t.
_refill_bucket(limiter, bucket, t) ==
    [tokens |-> Min(limiter.burst_size * SecondsPerMinute,
                    bucket.tokens
                      + (t - bucket.last_update) * limiter.requests_per_minute),
     last_update |-> t]

\* Lines 58-69 for client c: the bucket is made at time t0 if the client is
\* new, refilled at time t, and a token is taken if there is one.  A denial
\* divides by self.rate (line 68), which raises ZeroDivisionError at rate 0.
is_allowed(limiter, bs, c, t0, t) ==
    LET bucket == IF c \in DOMAIN bs THEN bs[c] ELSE NewBucket(limiter, t0)
        refilled == _refill_bucket(limiter, bucket, t)
        allowed == refilled.tokens >= SecondsPerMinute
        after == IF allowed
                 THEN [refilled EXCEPT !.tokens = @ - SecondsPerMinute]
                 ELSE refilled
    IN  [outcome |-> IF allowed THEN "allowed"
                     ELSE IF limiter.requests_per_minute = 0 THEN "raised"
                     ELSE "denied",
         refilled |-> refilled.tokens,
         buckets |-> [d \in DOMAIN bs \cup {c} |-> IF d = c THEN after ELSE bs[d]]]

InitLimiter ==
    /\ NoCall
    /\ pc = "limiting"
    /\ arg \in LimiterConfigs
    /\ ret = None
    /\ frozen = <<>>
    /\ tasks = <<>>
    /\ genai = None
    /\ ExtIdle

\* One call of is_allowed for client c, dt after the latest reading of the
\* clock; the clock is read again step later inside _refill_bucket.
IsAllowed(c, dt, step) ==
    /\ pc = "limiting"
    /\ now + dt + step <= MaxLimiterClock
    /\ LET r == is_allowed(arg, buckets, c, now + dt, now + dt + step)
       IN  /\ buckets' = r.buckets
           /\ ret' = Some([client |-> c, outcome |-> r.outcome,
                           refilled |-> r.refilled, new |-> c \notin DOMAIN buckets,
                           before |-> buckets])
    /\ now' = now + dt + step
    /\ UNCHANGED <<inputs, pc, vendor, name, attempt, start_time, last_error,
                   result, resp, calls, sleeps, last_attempt, busy, attempt_start,
                   n_failed, arg, frozen, tasks, genai, cancelled, requests,
                   loop_thread, sync_resp>>

NextLimiter ==
    \E c \in Clients, dt \in 0..MaxStep, step \in 0..1 : IsAllowed(c, dt, step)

SpecLimiter == InitLimiter /\ [][NextLimiter]_vars

\* C30: every bucket holds between 0 and burst tokens; a call is allowed
\* exactly when the refilled bucket holds at least one token, and then takes
\* exactly one; a call that is not allowed takes none; a new client's bucket
\* is full when it is first refilled; the buckets of the other clients are
\* left as they were.
C30_TokenBucket ==
    /\ \A c \in DOMAIN buckets :
          /\ 0 <= buckets[c].tokens
          /\ buckets[c].tokens <= arg.burst_size * SecondsPerMinute
    /\ ~IsNone(ret) =>
          LET r == Get(ret)
          IN  /\ r.outcome = "allowed" <=> r.refilled >= SecondsPerMinute
              /\ r.outcome = "allowed" =>
                    buckets[r.client].tokens = r.refilled - SecondsPerMinute
              /\ r.outcome # "allowed" => buckets[r.client].tokens = r.refilled
              /\ r.new => r.refilled = arg.burst_size * SecondsPerMinute
              /\ DOMAIN buckets = DOMAIN r.before \cup {r.client}
              /\ \A d \in DOMAIN r.before \ {r.client} : buckets[d] = r.before[d]

\* C30 witness: at 30 requests per minute and burst 2, client a, once out of
\* tokens, is allowed again when two seconds have refilled exactly one token,
\* which the call takes; client b's bucket is still full but for one token.
C30_Witness ==
    /\ pc = "limiting"
    /\ arg = [requests_per_minute |-> 30, burst_size |-> 2]
    /\ ~IsNone(ret)
    /\ Get(ret).client = "a"
    /\ ~Get(ret).new
    /\ Get(ret).outcome = "allowed"
    /\ Get(ret).refilled = SecondsPerMinute
    /\ buckets["a"].tokens = 0
    /\ "b" \in DOMAIN buckets
    /\ buckets["b"].tokens = SecondsPerMinute

====
